---------------------------- MODULE Spec2Model ----------------------------
(***************************************************************************)
(* A model of pycsg's csg/core.py (class CSG) over an object heap.         *)
(*                                                                         *)
(* Python objects are modelled with their identity: a polygon object is an *)
(* index into the heap `polys`, a Python list of polygons is an index into *)
(* `lists`, a CSG object is an index into `solids` whose value is the      *)
(* index of the list its `polygons` attribute refers to.  Assigning a      *)
(* reference copies the index, never the object.                           *)
(*                                                                         *)
(* csg/geom.py (Vector, Vertex, Plane, Polygon, BSPNode) is not part of    *)
(* the sources at hand; it is modelled from sections 3 and 4 of the        *)
(* specification.  Coordinates are integers and the geometry is axis       *)
(* aligned, where the floating point arithmetic of the program is exact.   *)
(***************************************************************************)
EXTENDS Integers, Sequences, FiniteSets, TLC

VARIABLES polys, lists, solids, prov, last, out, calls

vars == <<polys, lists, solids, prov, last, out, calls>>

-----------------------------------------------------------------------------
(* Helpers *)

Range(s) == {s[i] : i \in DOMAIN s}

(* The element of a one-element set.  Only({F(x) : x \in {e}}) is F(e)     *)
(* with e evaluated once, before F.                                        *)
Only(S) == CHOOSE r \in S : TRUE

-----------------------------------------------------------------------------
(* geom.Vector: three components, standard linear algebra (spec 3, 4.1) *)

Vector(x, y, z) == <<x, y, z>>

ZeroVector == <<0, 0, 0>>

Plus(a, b) == <<a[1] + b[1], a[2] + b[2], a[3] + b[3]>>

Minus(a, b) == <<a[1] - b[1], a[2] - b[2], a[3] - b[3]>>

Times(a, k) == <<a[1] * k, a[2] * k, a[3] * k>>

Negated(a) == <<0 - a[1], 0 - a[2], 0 - a[3]>>

Dot(a, b) == a[1] * b[1] + a[2] * b[2] + a[3] * b[3]

Cross(a, b) == <<a[2] * b[3] - a[3] * b[2],
                 a[3] * b[1] - a[1] * b[3],
                 a[1] * b[2] - a[2] * b[1]>>

Abs(k) == IF k < 0 THEN 0 - k ELSE k

(* length = sqrt(dot(v, v)); exact for the axis-parallel vectors of the    *)
(* model, the integer part of the root otherwise.                          *)
Length(a) ==
    LET d == Dot(a, a)
    IN  CHOOSE k \in 0..(Abs(a[1]) + Abs(a[2]) + Abs(a[3])) :
            k * k <= d /\ (k + 1) * (k + 1) > d

DivExact(n, d) == IF d < 0 THEN (0 - n) \div (0 - d) ELSE n \div d

(* unit = v / length; the zero vector is returned for a zero length.       *)
Unit(a) ==
    LET l == Length(a)
    IN  IF l = 0 THEN ZeroVector
        ELSE <<DivExact(a[1], l), DivExact(a[2], l), DivExact(a[3], l)>>

(* a.lerp(b, t) = a + (b - a) * t with t = num / den                       *)
Lerp(a, b, num, den) ==
    LET d == Minus(b, a)
    IN  <<a[1] + DivExact(d[1] * num, den),
          a[2] + DivExact(d[2] * num, den),
          a[3] + DivExact(d[3] * num, den)>>

-----------------------------------------------------------------------------
(* geom.Vertex, geom.Plane, geom.Polygon (spec 3, 4.1) *)

Vertex(pos, normal) == [pos |-> pos, normal |-> normal]

VertexFlip(v) == [v EXCEPT !.normal = Negated(v.normal)]

Interpolate(a, b, num, den) ==
    Vertex(Lerp(a.pos, b.pos, num, den), Lerp(a.normal, b.normal, num, den))

Plane(normal, w) == [normal |-> normal, w |-> w]

PlaneFromPoints(a, b, c) ==
    LET n == Unit(Cross(Minus(b, a), Minus(c, a)))
    IN  Plane(n, Dot(n, a))

PlaneFlip(p) == Plane(Negated(p.normal), 0 - p.w)

(* A polygon object: its vertex list and the plane computed from the first *)
(* three vertices when it is constructed.  org and flips are history       *)
(* fields: the operand (1 = self, 2 = csg, 0 = neither) the polygon was    *)
(* cloned from in the Boolean operation that made it, and the number of    *)
(* times flip() has been applied to it or to the polygon it was cut from.  *)
Polygon(vertices) ==
    [vertices |-> vertices,
     plane |-> PlaneFromPoints(vertices[1].pos, vertices[2].pos, vertices[3].pos),
     org |-> 0, flips |-> 0]

(* clone(): deep copy of the vertices and of the plane                     *)
PolygonClone(p) == [vertices |-> p.vertices, plane |-> p.plane, org |-> 0, flips |-> 0]

(* flip(): reverse the vertex order, flip every vertex, flip the plane     *)
RECURSIVE FlipVertices(_)
FlipVertices(vs) ==
    IF vs = <<>> THEN <<>> ELSE Append(FlipVertices(Tail(vs)), VertexFlip(Head(vs)))

PolygonFlip(p) ==
    [vertices |-> FlipVertices(p.vertices),
     plane |-> PlaneFlip(p.plane),
     org |-> p.org, flips |-> p.flips + 1]

(* What a caller can observe of a polygon object *)
Shape(p) == [vertices |-> p.vertices, plane |-> p.plane]

-----------------------------------------------------------------------------
(* Plane.splitPolygon (spec 4.2) *)

COPLANAR == 0
FRONT == 1
BACK == 2
SPANNING == 3

BitOr(a, b) ==
    (IF a % 2 = 1 \/ b % 2 = 1 THEN 1 ELSE 0)
  + (IF a \div 2 = 1 \/ b \div 2 = 1 THEN 2 ELSE 0)

(* |t| < EPS on integers is t = 0 *)
VertexLoc(plane, v) ==
    LET t == Dot(plane.normal, v.pos) - plane.w
    IN  IF t = 0 THEN COPLANAR ELSE IF t > 0 THEN FRONT ELSE BACK

RECURSIVE OrAll(_)
OrAll(ts) == IF ts = <<>> THEN COPLANAR ELSE BitOr(Head(ts), OrAll(Tail(ts)))

(* The walk round the vertex ring of a spanning polygon, from vertex i on; *)
(* f and b are the front and back accumulators.                            *)
RECURSIVE SplitWalk(_, _, _, _, _, _)
SplitWalk(plane, vs, ts, i, f, b) ==
    IF i > Len(vs) THEN [f |-> f, b |-> b]
    ELSE LET j == (i % Len(vs)) + 1
             vi == vs[i]
             vj == vs[j]
             f1 == IF ts[i] # BACK THEN Append(f, vi) ELSE f
             b1 == IF ts[i] # FRONT THEN Append(b, vi) ELSE b
             num == plane.w - Dot(plane.normal, vi.pos)
             den == Dot(plane.normal, Minus(vj.pos, vi.pos))
             cut == BitOr(ts[i], ts[j]) = SPANNING
             v == Interpolate(vi, vj, num, den)
         IN  SplitWalk(plane, vs, ts, i + 1,
                       IF cut THEN Append(f1, v) ELSE f1,
                       IF cut THEN Append(b1, v) ELSE b1)

(* A polygon made from the vertices of a cut: a new object with the plane  *)
(* of its first three vertices; it keeps the history of its parent.        *)
Fragment(vertices, parent) ==
    [Polygon(vertices) EXCEPT !.org = parent.org, !.flips = parent.flips]

(* What one splitPolygon call appends to each of its four output lists,    *)
(* and the heap after it.                                                  *)
Outcome(H, coplanarFront, coplanarBack, front, back) ==
    [H |-> H, coplanarFront |-> coplanarFront, coplanarBack |-> coplanarBack,
     front |-> front, back |-> back]

(* The spanning case: w holds the two vertex accumulators; each becomes a  *)
(* new polygon object when it has at least three vertices.                 *)
SplitSpanning(H, poly, w) ==
    Outcome(H \o (IF Len(w.f) >= 3 THEN <<Fragment(w.f, poly)>> ELSE <<>>)
              \o (IF Len(w.b) >= 3 THEN <<Fragment(w.b, poly)>> ELSE <<>>),
            <<>>, <<>>,
            IF Len(w.f) >= 3 THEN <<Len(H) + 1>> ELSE <<>>,
            IF Len(w.b) >= 3
            THEN <<Len(H) + (IF Len(w.f) >= 3 THEN 2 ELSE 1)>> ELSE <<>>)

SplitByType(plane, H, pid, ts, polygonType) ==
    IF polygonType = COPLANAR
    THEN IF Dot(plane.normal, H[pid].plane.normal) > 0
         THEN Outcome(H, <<pid>>, <<>>, <<>>, <<>>)
         ELSE Outcome(H, <<>>, <<pid>>, <<>>, <<>>)
    ELSE IF polygonType = FRONT THEN Outcome(H, <<>>, <<>>, <<pid>>, <<>>)
    ELSE IF polygonType = BACK THEN Outcome(H, <<>>, <<>>, <<>>, <<pid>>)
    ELSE Only({ SplitSpanning(H, H[pid], w) :
                    w \in {SplitWalk(plane, H[pid].vertices, ts, 1, <<>>, <<>>)} })

VertexLocs(plane, vs) == [i \in 1..Len(vs) |-> VertexLoc(plane, vs[i])]

(* splitPolygon on the polygon object pid of heap H *)
SplitPolygon(plane, H, pid) ==
    Only({ SplitByType(plane, H, pid, ts, OrAll(ts)) :
               ts \in {VertexLocs(plane, H[pid].vertices)} })

(* The output lists after one more splitPolygon call with outcome r.       *)
(* frontAll and backAll are the lists of a caller that passes one list as  *)
(* coplanarFront and front, and one as coplanarBack and back.              *)
Collect(acc, r) ==
    [H |-> r.H,
     coplanarFront |-> acc.coplanarFront \o r.coplanarFront,
     coplanarBack |-> acc.coplanarBack \o r.coplanarBack,
     front |-> acc.front \o r.front,
     back |-> acc.back \o r.back,
     frontAll |-> acc.frontAll \o r.coplanarFront \o r.front,
     backAll |-> acc.backAll \o r.coplanarBack \o r.back]

(* splitPolygon applied to every polygon of ids, in order *)
RECURSIVE SplitEach(_, _, _, _)
SplitEach(plane, ids, i, acc) ==
    IF i > Len(ids) THEN acc
    ELSE Only({ SplitEach(plane, ids, i + 1, Collect(acc, r)) :
                    r \in {SplitPolygon(plane, acc.H, ids[i])} })

SplitAll(plane, H, ids) ==
    SplitEach(plane, ids, 1,
              [H |-> H, coplanarFront |-> <<>>, coplanarBack |-> <<>>,
               front |-> <<>>, back |-> <<>>, frontAll |-> <<>>, backAll |-> <<>>])

-----------------------------------------------------------------------------
(* geom.BSPNode (spec 3, 4.3).  An optional plane or child is a sequence   *)
(* of length 0 or 1.  Every operation takes the heap and returns it with   *)
(* its result.                                                             *)

Node(plane, polygons, front, back) ==
    [plane |-> plane, polygons |-> polygons, front |-> front, back |-> back]

NewNode == Node(<<>>, <<>>, <<>>, <<>>)

(* An optional child and the heap: none, or the outcome r of a call on it *)
NoChild(H) == [node |-> <<>>, H |-> H]

Child(r) == Only({ [node |-> <<v.node>>, H |-> v.H] : v \in {r} })

RECURSIVE FlipEach(_, _, _)
FlipEach(H, ids, i) ==
    IF i > Len(ids) THEN H
    ELSE Only({ FlipEach(H1, ids, i + 1) :
                    H1 \in {[H EXCEPT ![ids[i]] = PolygonFlip(H[ids[i]])]} })

(* invert(): flip the polygons of the node and its plane, invert front and *)
(* back, swap them.                                                        *)
RECURSIVE Invert(_, _)
InvertSwap(node, fr, bk) ==
    [node |-> Node(IF node.plane = <<>> THEN <<>> ELSE <<PlaneFlip(node.plane[1])>>,
                   node.polygons, bk.node, fr.node),
     H |-> bk.H]

InvertBack(node, fr) ==
    Only({ InvertSwap(node, fr, bk) :
               bk \in {IF node.back = <<>> THEN NoChild(fr.H)
                       ELSE Child(Invert(node.back[1], fr.H))} })

InvertFront(node, H) ==
    Only({ InvertBack(node, fr) :
               fr \in {IF node.front = <<>> THEN NoChild(H)
                       ELSE Child(Invert(node.front[1], H))} })

Invert(node, H) ==
    Only({ InvertFront(node, H1) : H1 \in {FlipEach(H, node.polygons, 1)} })

(* clipPolygons(polygons): the parts of the polygons outside the solid of  *)
(* this subtree.                                                           *)
RECURSIVE ClipPolygons(_, _, _)
ClipJoin(fr, bk) == [H |-> bk.H, polygons |-> fr.polygons \o bk.polygons]

ClipBack(node, s, fr) ==
    Only({ ClipJoin(fr, bk) :
               bk \in {IF node.back = <<>> THEN [H |-> fr.H, polygons |-> <<>>]
                       ELSE ClipPolygons(node.back[1], fr.H, s.backAll)} })

ClipFront(node, s) ==
    Only({ ClipBack(node, s, fr) :
               fr \in {IF node.front = <<>> THEN [H |-> s.H, polygons |-> s.frontAll]
                       ELSE ClipPolygons(node.front[1], s.H, s.frontAll)} })

ClipPolygons(node, H, ids) ==
    IF node.plane = <<>> THEN [H |-> H, polygons |-> ids]
    ELSE Only({ ClipFront(node, s) : s \in {SplitAll(node.plane[1], H, ids)} })

(* clipTo(bsp): replace the polygons of every node of this tree by what    *)
(* bsp.clipPolygons keeps of them.                                         *)
RECURSIVE ClipTo(_, _, _)
ClipToJoin(node, c, fr, bk) ==
    [node |-> Node(node.plane, c.polygons, fr.node, bk.node), H |-> bk.H]

ClipToBack(node, bsp, c, fr) ==
    Only({ ClipToJoin(node, c, fr, bk) :
               bk \in {IF node.back = <<>> THEN NoChild(fr.H)
                       ELSE Child(ClipTo(node.back[1], bsp, fr.H))} })

ClipToFront(node, bsp, c) ==
    Only({ ClipToBack(node, bsp, c, fr) :
               fr \in {IF node.front = <<>> THEN NoChild(c.H)
                       ELSE Child(ClipTo(node.front[1], bsp, c.H))} })

ClipTo(node, bsp, H) ==
    Only({ ClipToFront(node, bsp, c) : c \in {ClipPolygons(bsp, H, node.polygons)} })

RECURSIVE AllPolygons(_)
AllPolygons(node) ==
    node.polygons
    \o (IF node.front = <<>> THEN <<>> ELSE AllPolygons(node.front[1]))
    \o (IF node.back = <<>> THEN <<>> ELSE AllPolygons(node.back[1]))

(* build(polygons): take the plane of the first polygon when the node has  *)
(* none, keep the coplanar polygons, build front and back from the rest.   *)
RECURSIVE Build(_, _, _)
BuildJoin(node, pl, s, fr, bk) ==
    [node |-> Node(<<pl>>, node.polygons \o s.coplanarFront \o s.coplanarBack,
                   fr.node, bk.node),
     H |-> bk.H]

BuildBack(node, pl, s, fr) ==
    Only({ BuildJoin(node, pl, s, fr, bk) :
               bk \in {IF s.back = <<>> THEN [node |-> node.back, H |-> fr.H]
                       ELSE Child(Build(IF node.back = <<>> THEN NewNode
                                        ELSE node.back[1], fr.H, s.back))} })

BuildFront(node, pl, s) ==
    Only({ BuildBack(node, pl, s, fr) :
               fr \in {IF s.front = <<>> THEN [node |-> node.front, H |-> s.H]
                       ELSE Child(Build(IF node.front = <<>> THEN NewNode
                                        ELSE node.front[1], s.H, s.front))} })

BuildOn(node, pl, H, ids) ==
    Only({ BuildFront(node, pl, s) : s \in {SplitAll(pl, H, ids)} })

Build(node, H, ids) ==
    IF ids = <<>> THEN [node |-> node, H |-> H]
    ELSE BuildOn(node, IF node.plane = <<>> THEN H[ids[1]].plane ELSE node.plane[1],
                 H, ids)

(* BSPNode(polygons): an empty node, built when polygons is not empty *)
BSPNode(H, ids) == Build(NewNode, H, ids)

-----------------------------------------------------------------------------
(* class CSG (core.py) *)

(* Fault: clone() that hands out the polygon objects of self itself        *)
(* (csg.polygons = self.polygons) instead of clones of them.               *)
CloneListShared(H, ids) == [H |-> H, polygons |-> ids]

(* list(map(lambda p: p.clone(), self.polygons)): a new list of new        *)
(* polygon objects, appended to the heap H in order.                       *)
CloneList(H, ids) ==
    [H |-> H \o [i \in 1..Len(ids) |-> PolygonClone(H[ids[i]])],
     polygons |-> [i \in 1..Len(ids) |-> Len(H) + i]]

(* History only: record on the polygon objects ids which operand they are  *)
(* the clones of.                                                          *)
RECURSIVE Mark(_, _, _)
Mark(H, ids, org) ==
    IF ids = <<>> THEN H
    ELSE Only({ Mark(H1, Tail(ids), org) : H1 \in {[H EXCEPT ![Head(ids)].org = org]} })

(* The two trees a and b of a Boolean operation and the heap they live in. *)
(* Each statement of an operation is a step from one such triple to the    *)
(* next; the statements of an operation are written innermost first.       *)
Pair(a, b, H) == [a |-> a, b |-> b, H |-> H]

SetA(m, r) == Pair(r.node, m.b, r.H)

SetB(m, r) == Pair(m.a, r.node, r.H)

(* a = geom.BSPNode(self.clone().polygons)                                 *)
(* b = geom.BSPNode(csg.clone().polygons)                                  *)
TreeB(a, cb) ==
    Only({ Pair(a.node, b.node, b.H) : b \in {BSPNode(a.H, cb.polygons)} })

TreeA(ca, cb) ==
    Only({ TreeB(a, cb) :
               a \in {BSPNode(Mark(Mark(cb.H, ca.polygons, 1), cb.polygons, 2),
                              ca.polygons)} })

CloneB(ca, csgIds) == Only({ TreeA(ca, cb) : cb \in {CloneList(ca.H, csgIds)} })

Trees(H, selfIds, csgIds) ==
    Only({ CloneB(ca, csgIds) : ca \in {CloneList(H, selfIds)} })

AInvert(m) == Only({ SetA(m, r) : r \in {Invert(m.a, m.H)} })

BInvert(m) == Only({ SetB(m, r) : r \in {Invert(m.b, m.H)} })

AClipToB(m) == Only({ SetA(m, r) : r \in {ClipTo(m.a, m.b, m.H)} })

BClipToA(m) == Only({ SetB(m, r) : r \in {ClipTo(m.b, m.a, m.H)} })

(* a.build(b.allPolygons()) *)
ABuildB(m) == Only({ SetA(m, r) : r \in {Build(m.a, m.H, AllPolygons(m.b))} })

(* a.allPolygons(), the list handed to CSG.fromPolygons *)
AAllPolygons(m) == [H |-> m.H, polygons |-> AllPolygons(m.a)]

CSGUnion(H, selfIds, csgIds) ==
    Only({ AAllPolygons(m) : m \in
         { ABuildB(m) : m \in
         { BInvert(m) : m \in
         { BClipToA(m) : m \in
         { BInvert(m) : m \in
         { BClipToA(m) : m \in
         { AClipToB(m) : m \in
         {Trees(H, selfIds, csgIds)} } } } } } } })

(* Fault: subtract() without its last a.invert()                           *)
CSGSubtractNoLastInvert(H, selfIds, csgIds) ==
    Only({ AAllPolygons(m) : m \in
         { ABuildB(m) : m \in
         { BInvert(m) : m \in
         { BClipToA(m) : m \in
         { BInvert(m) : m \in
         { BClipToA(m) : m \in
         { AClipToB(m) : m \in
         { AInvert(m) : m \in
         {Trees(H, selfIds, csgIds)} } } } } } } } })

CSGSubtract(H, selfIds, csgIds) ==
    Only({ AAllPolygons(m) : m \in
         { AInvert(m) : m \in
         { ABuildB(m) : m \in
         { BInvert(m) : m \in
         { BClipToA(m) : m \in
         { BInvert(m) : m \in
         { BClipToA(m) : m \in
         { AClipToB(m) : m \in
         { AInvert(m) : m \in
         {Trees(H, selfIds, csgIds)} } } } } } } } } })

CSGIntersect(H, selfIds, csgIds) ==
    Only({ AAllPolygons(m) : m \in
         { AInvert(m) : m \in
         { ABuildB(m) : m \in
         { BClipToA(m) : m \in
         { AClipToB(m) : m \in
         { BInvert(m) : m \in
         { BClipToA(m) : m \in
         { AInvert(m) : m \in
         {Trees(H, selfIds, csgIds)} } } } } } } } })

(* inverse(): csg = self.clone(); map(lambda p: p.flip(), csg.polygons).   *)
(* The map object is never iterated (Python 3), so flip is never called.   *)
CSGInverse(H, ids) == CloneList(H, ids)

(* The heap after a call that worked on H and returned the list ids: the   *)
(* n objects that existed before the call keep their indices, the objects  *)
(* of the returned list follow, the call's other temporaries are dropped.  *)
Fresh(ids, n) == SelectSeq(ids, LAMBDA i : i > n)

KeepFresh(H, ids, n, fresh) ==
    [H |-> SubSeq(H, 1, n) \o [i \in 1..Len(fresh) |-> H[fresh[i]]],
     polygons |-> [i \in 1..Len(ids) |->
                      IF ids[i] <= n THEN ids[i]
                      ELSE n + Len(Fresh(SubSeq(ids, 1, i), n))]]

Keep(H, ids, n) == KeepFresh(H, ids, n, Fresh(ids, n))

(* Fault: fromPolygons that keeps a copy, csg.polygons = list(polygons)    *)
FromPolygonsCopy(L, lid) == [L |-> Append(L, L[lid]), polygons |-> Len(L) + 1]

(* CSG.fromPolygons(polygons): csg.polygons = polygons, the list itself.   *)
(* L is the heap of lists, lid the list passed.                            *)
FromPolygons(L, lid) == [L |-> L, polygons |-> lid]

(* CSG.cube(center, radius) *)
CubeFaces == << <<0, 4, 6, 2>>, <<1, 3, 7, 5>>, <<0, 1, 5, 4>>,
                <<2, 6, 7, 3>>, <<0, 2, 3, 1>>, <<4, 5, 7, 6>> >>

Bit(i, k) == (i \div k) % 2

CubeVertex(c, r, i) ==
    Vertex(Vector(c[1] + r[1] * (2 * Bit(i, 1) - 1),
                  c[2] + r[2] * (2 * Bit(i, 2) - 1),
                  c[3] + r[3] * (2 * Bit(i, 4) - 1)),
           ZeroVector)

CubeFace(c, r, v) ==
    Polygon(<<CubeVertex(c, r, v[1]), CubeVertex(c, r, v[2]),
              CubeVertex(c, r, v[3]), CubeVertex(c, r, v[4])>>)

Cube(c, r) ==
    <<CubeFace(c, r, CubeFaces[1]), CubeFace(c, r, CubeFaces[2]),
      CubeFace(c, r, CubeFaces[3]), CubeFace(c, r, CubeFaces[4]),
      CubeFace(c, r, CubeFaces[5]), CubeFace(c, r, CubeFaces[6])>>

(* translate(disp): v.pos = v.pos.plus(d) for every vertex of every        *)
(* polygon of the list, in list order; nothing else is assigned.           *)
RECURSIVE TranslateVertices(_, _)
TranslateVertices(vs, d) ==
    IF vs = <<>> THEN <<>>
    ELSE <<Vertex(Plus(Head(vs).pos, d), Head(vs).normal)>>
         \o TranslateVertices(Tail(vs), d)

RECURSIVE CSGTranslate(_, _, _)
CSGTranslate(H, ids, disp) ==
    IF ids = <<>> THEN H
    ELSE CSGTranslate([H EXCEPT ![Head(ids)].vertices =
                                    TranslateVertices(H[Head(ids)].vertices, disp)],
                      Tail(ids), disp)

(* math.cos and math.sin of the quarter turns, where they are integers *)
Cos(deg) == IF deg % 360 = 0 THEN 1 ELSE IF deg % 360 = 180 THEN 0 - 1 ELSE 0

Sin(deg) == IF deg % 360 = 90 THEN 1 ELSE IF deg % 360 = 270 THEN 0 - 1 ELSE 0

(* newVector(v) of rotate: u1.times(vPerpLen * c) is vPerp * c and         *)
(* u2.times(vPerpLen * s) is vPerp.cross(ax) * s.                          *)
NewVector(v, ax, cosAngle, sinAngle) ==
    LET vA == Dot(v, ax)
        vPerp == Minus(v, Times(ax, vA))
    IN  IF vPerp # ZeroVector
        THEN Plus(Times(ax, vA),
                  Plus(Times(vPerp, cosAngle), Times(Cross(vPerp, ax), sinAngle)))
        ELSE v

(* rotate(axis, angleDeg): positions are rotated, normals are rotated when *)
(* their length is not zero; nothing else is assigned.                     *)
RECURSIVE RotateVertices(_, _, _, _)
RotateVertices(vs, ax, cosAngle, sinAngle) ==
    IF vs = <<>> THEN <<>>
    ELSE <<Vertex(NewVector(Head(vs).pos, ax, cosAngle, sinAngle),
                  IF Head(vs).normal # ZeroVector
                  THEN NewVector(Head(vs).normal, ax, cosAngle, sinAngle)
                  ELSE Head(vs).normal)>>
         \o RotateVertices(Tail(vs), ax, cosAngle, sinAngle)

RECURSIVE CSGRotate(_, _, _, _)
CSGRotate(H, ids, axis, angleDeg) ==
    IF ids = <<>> THEN H
    ELSE CSGRotate([H EXCEPT ![Head(ids)].vertices =
                       RotateVertices(H[Head(ids)].vertices, Unit(axis),
                                      Cos(angleDeg), Sin(angleDeg))],
                   Tail(ids), axis, angleDeg)

(* toVerticesAndPolygons().  vertexIndexMap is a set of <<key, index>>     *)
(* pairs; the walk goes over the vertices of polygon i from vertex j on.   *)
IndexOf(map, key) == (CHOOSE e \in map : e[1] = key)[2]

(* Fault: index = len(vertexIndexMap) - 1, the newest index, instead of    *)
(* the index looked up for vKey.                                           *)
RECURSIVE WalkCellNewest(_, _, _, _)
WalkCellNewest(vs, j, map, cell) ==
    IF j > Len(vs) THEN [map |-> map, cell |-> cell]
    ELSE LET vKey == <<vs[j].pos[1], vs[j].pos[2], vs[j].pos[3]>>
             map1 == IF \E e \in map : e[1] = vKey THEN map
                     ELSE map \cup {<<vKey, Cardinality(map)>>}
         IN  WalkCellNewest(vs, j + 1, map1, Append(cell, Cardinality(map1) - 1))

RECURSIVE WalkCell(_, _, _, _)
WalkCell(vs, j, map, cell) ==
    IF j > Len(vs) THEN [map |-> map, cell |-> cell]
    ELSE LET vKey == <<vs[j].pos[1], vs[j].pos[2], vs[j].pos[3]>>
             map1 == IF \E e \in map : e[1] = vKey THEN map
                     ELSE map \cup {<<vKey, Cardinality(map)>>}
         IN  WalkCell(vs, j + 1, map1, Append(cell, IndexOf(map1, vKey)))

RECURSIVE WalkPolygons(_, _, _, _, _, _)
WalkNext(H, ids, i, cells, count, c) ==
    WalkPolygons(H, ids, i + 1, c.map, Append(cells, c.cell), count + Len(c.cell))

WalkPolygons(H, ids, i, map, cells, count) ==
    IF i > Len(ids) THEN [map |-> map, cells |-> cells, count |-> count]
    ELSE WalkNext(H, ids, i, cells, count, WalkCell(H[ids[i]].vertices, 1, map, <<>>))

(* sorted(vertexIndexMap.items(), key=operator.itemgetter(1)), keys only *)
SortedKeys(map) ==
    [k \in 1..Cardinality(map) |-> (CHOOSE e \in map : e[2] = k - 1)[1]]

Walked(w) == [verts |-> SortedKeys(w.map), cells |-> w.cells, count |-> w.count]

ToVerticesAndPolygons(H, ids) == Walked(WalkPolygons(H, ids, 1, {}, <<>>, 0))

(* saveVTK(filename): the lines written, in order.  A line is its fixed    *)
(* format string and the numbers formatted into it.                        *)
Line(text, nums) == [text |-> text, nums |-> nums]

RECURSIVE CellLines(_)
CellLines(cells) ==
    IF cells = <<>> THEN <<>>
    ELSE <<Line("{} ", <<Len(Head(cells))>>)>>
         \o [j \in 1..Len(Head(cells)) |-> Line("{} ", <<Head(cells)[j]>>)]
         \o CellLines(Tail(cells))

(* Fault: the POLYGONS line declares count instead of count + numCells     *)
WrittenCountOnly(verts, cells, count, numCells) ==
    << Line("# vtk DataFile Version 3.0", <<>>),
       Line("pycsg output", <<>>),
       Line("ASCII", <<>>),
       Line("DATASET POLYDATA", <<>>),
       Line("POINTS {} float", <<Len(verts)>>) >>
    \o [k \in 1..Len(verts) |-> Line("{} {} {}", <<verts[k][1], verts[k][2], verts[k][3]>>)]
    \o << Line("POLYGONS {} {}", <<numCells, count>>) >>
    \o CellLines(cells)

Written(verts, cells, count, numCells) ==
    << Line("# vtk DataFile Version 3.0", <<>>),
       Line("pycsg output", <<>>),
       Line("ASCII", <<>>),
       Line("DATASET POLYDATA", <<>>),
       Line("POINTS {} float", <<Len(verts)>>) >>
    \o [k \in 1..Len(verts) |-> Line("{} {} {}", <<verts[k][1], verts[k][2], verts[k][3]>>)]
    \o << Line("POLYGONS {} {}", <<numCells, count + numCells>>) >>
    \o CellLines(cells)

WrittenFor(r) == Written(r.verts, r.cells, r.count, Len(r.cells))

SaveVTK(H, ids) == WrittenFor(ToVerticesAndPolygons(H, ids))

-----------------------------------------------------------------------------
(* Inputs: the polygon lists a caller starts from *)

Quad(a, b, c, d, n) == Polygon(<<Vertex(a, n), Vertex(b, n), Vertex(c, n), Vertex(d, n)>>)

(* Two crossing squares with vertex normals: building a tree from them     *)
(* cuts the second square along the plane of the first.                    *)
CrossedSquares ==
    << Quad(<<0, -1, -1>>, <<0, 1, -1>>, <<0, 1, 1>>, <<0, -1, 1>>, <<1, 0, 0>>),
       Quad(<<-1, -1, 0>>, <<1, -1, 0>>, <<1, 1, 0>>, <<-1, 1, 0>>, <<0, 0, 1>>) >>

Inputs == { <<>>,
            Cube(<<0, 0, 0>>, <<1, 1, 1>>),
            Cube(<<1, 0, 0>>, <<1, 1, 1>>),
            Cube(<<2, 0, 0>>, <<1, 1, 1>>),
            CrossedSquares }

(* A polygon a caller adds to a list it holds *)
ExtraPolygon ==
    Quad(<<-1, -1, 2>>, <<1, -1, 2>>, <<1, 1, 2>>, <<-1, 1, 2>>, <<0, 0, 1>>)

Displacements == { <<1, 0, 0>>, <<0, -2, 0>>, <<1, 1, 1>> }

Axes == { <<0, 0, 1>>, <<2, 0, 0>> }

Angles == { 90, 180 }

-----------------------------------------------------------------------------
(* State *)

MaxSolids == 3

MaxCalls == 2

Solids == 1..Len(solids)

Lists == 1..Len(lists)

(* toPolygons(): return self.polygons, the list itself *)
ToPolygons(s) == solids[s]

PolygonsOf(s) == lists[ToPolygons(s)]

NoOut == [verts |-> <<>>, cells |-> <<>>, count |-> 0, file |-> <<>>]

(* History: the call just made, its arguments (a the solid or list it was  *)
(* made on, b its other argument) and result, and the heap it was made on. *)
Op(op, a, b, res) ==
    [op |-> op, a |-> a, b |-> b, res |-> res, polys |-> polys, lists |-> lists]

(* History: how a solid was made; list is the list handed to fromPolygons  *)
Made(op, a, b, list) == [op |-> op, a |-> a, b |-> b, list |-> list]

NoOp == [op |-> "init", a |-> 0, b |-> 0, res |-> 0, polys |-> <<>>, lists |-> <<>>]

(* s1 = CSG.fromPolygons(x); s2 = CSG.fromPolygons(y) *)
Init ==
    \E x \in Inputs, y \in Inputs :
    \E f \in {FromPolygons(<<[i \in 1..Len(x) |-> i]>>, 1)} :
    \E g \in {FromPolygons(Append(f.L, [i \in 1..Len(y) |-> Len(x) + i]), Len(f.L) + 1)} :
        /\ polys = x \o y
        /\ lists = g.L
        /\ solids = <<f.polygons, g.polygons>>
        /\ prov = <<Made("fromPolygons", 0, 0, 1), Made("fromPolygons", 0, 0, Len(f.L) + 1)>>
        /\ last = NoOp
        /\ out = NoOut
        /\ calls = 0

(* s1 = CSG.fromPolygons(x) *)
InitOne ==
    \E x \in Inputs :
    \E f \in {FromPolygons(<<[i \in 1..Len(x) |-> i]>>, 1)} :
        /\ polys = x
        /\ lists = f.L
        /\ solids = <<f.polygons>>
        /\ prov = <<Made("fromPolygons", 0, 0, 1)>>
        /\ last = NoOp
        /\ out = NoOut
        /\ calls = 0

(* return CSG.fromPolygons(r.polygons) where r is the outcome of a call on *)
(* the heap polys                                                          *)
Return(op, a, b, r) ==
    \E k \in {Keep(r.H, r.polygons, Len(polys))} :
    \E f \in {FromPolygons(Append(lists, k.polygons), Len(lists) + 1)} :
        /\ polys' = k.H
        /\ lists' = f.L
        /\ solids' = Append(solids, f.polygons)
        /\ prov' = Append(prov, Made(op, a, b, f.polygons))
        /\ last' = Op(op, a, b, Len(solids) + 1)
        /\ calls' = calls + 1
        /\ out' = out

DoUnion(a, b) == Return("union", a, b, CSGUnion(polys, PolygonsOf(a), PolygonsOf(b)))

DoSubtract(a, b) ==
    Return("subtract", a, b, CSGSubtract(polys, PolygonsOf(a), PolygonsOf(b)))

DoIntersect(a, b) ==
    Return("intersect", a, b, CSGIntersect(polys, PolygonsOf(a), PolygonsOf(b)))

DoInverse(a) == Return("inverse", a, 0, CSGInverse(polys, PolygonsOf(a)))

Union(a, b) == Len(solids) < MaxSolids /\ DoUnion(a, b)

Subtract(a, b) == Len(solids) < MaxSolids /\ DoSubtract(a, b)

Intersect(a, b) == Len(solids) < MaxSolids /\ DoIntersect(a, b)

Inverse(a) == Len(solids) < MaxSolids /\ DoInverse(a)

(* c = s.clone(): a new CSG whose polygons is the new list of clones *)
Clone(a) ==
    /\ Len(solids) < MaxSolids
    /\ calls < MaxCalls
    /\ \E c \in {CloneList(polys, PolygonsOf(a))} :
           /\ polys' = c.H
           /\ lists' = Append(lists, c.polygons)
           /\ solids' = Append(solids, Len(lists) + 1)
           /\ prov' = Append(prov, Made("clone", a, 0, 0))
           /\ last' = Op("clone", a, 0, Len(solids) + 1)
           /\ calls' = calls + 1
           /\ out' = out

(* s = CSG.fromPolygons(L) for a list L the caller holds *)
FromPolygonsCall(l) ==
    /\ Len(solids) < MaxSolids
    /\ calls < MaxCalls
    /\ \E f \in {FromPolygons(lists, l)} :
           /\ lists' = f.L
           /\ solids' = Append(solids, f.polygons)
           /\ prov' = Append(prov, Made("fromPolygons", 0, 0, l))
           /\ last' = Op("fromPolygons", l, 0, Len(solids) + 1)
           /\ calls' = calls + 1
           /\ UNCHANGED <<polys, out>>

(* The caller changes a list it holds (the one it gave to fromPolygons or  *)
(* got from toPolygons): L.append(p) with a new polygon p                  *)
ListAppend(l) ==
    /\ calls < MaxCalls
    /\ polys' = Append(polys, ExtraPolygon)
    /\ lists' = [lists EXCEPT ![l] = Append(@, Len(polys) + 1)]
    /\ last' = Op("append", l, 0, 0)
    /\ calls' = calls + 1
    /\ UNCHANGED <<solids, prov, out>>

(* L.pop() *)
ListPop(l) ==
    /\ calls < MaxCalls
    /\ lists[l] # <<>>
    /\ lists' = [lists EXCEPT ![l] = SubSeq(@, 1, Len(@) - 1)]
    /\ last' = Op("pop", l, 0, 0)
    /\ calls' = calls + 1
    /\ UNCHANGED <<polys, solids, prov, out>>

(* L[0].vertices[0].pos = L[0].vertices[0].pos.plus(d) *)
MoveVertex(l, d) ==
    /\ calls < MaxCalls
    /\ lists[l] # <<>>
    /\ polys' = [polys EXCEPT ![lists[l][1]].vertices[1].pos = Plus(@, d)]
    /\ last' = Op("moveVertex", l, 0, 0)
    /\ calls' = calls + 1
    /\ UNCHANGED <<lists, solids, prov, out>>

Translate(a, d) ==
    /\ calls < MaxCalls
    /\ polys' = CSGTranslate(polys, PolygonsOf(a), d)
    /\ last' = Op("translate", a, d, 0)
    /\ calls' = calls + 1
    /\ UNCHANGED <<lists, solids, prov, out>>

Rotate(a, axis, angleDeg) ==
    /\ calls < MaxCalls
    /\ polys' = CSGRotate(polys, PolygonsOf(a), axis, angleDeg)
    /\ last' = Op("rotate", a, <<axis, angleDeg>>, 0)
    /\ calls' = calls + 1
    /\ UNCHANGED <<lists, solids, prov, out>>

ToVerticesAndPolygonsCall(a) ==
    /\ calls < MaxCalls
    /\ \E r \in {ToVerticesAndPolygons(polys, PolygonsOf(a))} :
           out' = [out EXCEPT !.verts = r.verts, !.cells = r.cells, !.count = r.count]
    /\ last' = Op("toVerticesAndPolygons", a, 0, 0)
    /\ calls' = calls + 1
    /\ UNCHANGED <<polys, lists, solids, prov>>

SaveVTKCall(a) ==
    /\ calls < MaxCalls
    /\ out' = [out EXCEPT !.file = SaveVTK(polys, PolygonsOf(a))]
    /\ last' = Op("saveVTK", a, 0, 0)
    /\ calls' = calls + 1
    /\ UNCHANGED <<polys, lists, solids, prov>>

(* Boolean operations on two solids *)
Next ==
    \/ \E a \in Solids, b \in Solids : Union(a, b)
    \/ \E a \in Solids, b \in Solids : Subtract(a, b)
    \/ \E a \in Solids, b \in Solids : Intersect(a, b)
    \/ \E a \in Solids : Inverse(a)

Spec == Init /\ [][Next]_vars

(* A caller that shares lists with its solids, transforms and exports them *)
NextEdit ==
    \/ \E l \in Lists : FromPolygonsCall(l)
    \/ \E a \in Solids : Clone(a)
    \/ \E l \in Lists : ListAppend(l)
    \/ \E l \in Lists : ListPop(l)
    \/ \E l \in Lists, d \in Displacements : MoveVertex(l, d)
    \/ \E a \in Solids, d \in Displacements : Translate(a, d)
    \/ \E a \in Solids, axis \in Axes, angleDeg \in Angles : Rotate(a, axis, angleDeg)
    \/ \E a \in Solids : ToVerticesAndPolygonsCall(a)
    \/ \E a \in Solids : SaveVTKCall(a)

SpecEdit == InitOne /\ [][NextEdit]_vars

(* A caller that evaluates x = A.subtract(B) and then                      *)
(* y = A.inverse().union(B).inverse(), B being the second solid or A       *)
NextIdentity ==
    \/ \E b \in Solids : Len(solids) = 2 /\ DoSubtract(1, b)
    \/ Len(solids) = 3 /\ DoInverse(1)
    \/ Len(solids) = 4 /\ DoUnion(4, prov[3].b)
    \/ Len(solids) = 5 /\ DoInverse(5)

SpecIdentity == Init /\ [][NextIdentity]_vars

-----------------------------------------------------------------------------
(* Properties.  last holds the heap as it was when the last call was made, *)
(* so a property of a call compares the state with that snapshot.          *)

BooleanOps == {"union", "subtract", "intersect"}

(* What s.toPolygons() shows: the polygons of the list, in order *)
Observed(s) == [k \in 1..Len(PolygonsOf(s)) |-> Shape(polys[PolygonsOf(s)[k]])]

(* What it showed when the last call was made *)
ObservedBefore(s) ==
    [k \in 1..Len(last.lists[solids[s]]) |-> Shape(last.polys[last.lists[solids[s]][k]])]

(* C1: after A.union(B), A.subtract(B) or A.intersect(B) returns, B being  *)
(* A or another solid, every list and every polygon object that existed    *)
(* before the call is as in the snapshot taken before it (same polygons in *)
(* the same order, same vertices, positions, normals and planes), and the  *)
(* returned solid holds only polygon objects made during the call: the     *)
(* operation worked on clones.                                             *)
OperandsUnchanged ==
    last.op \in BooleanOps =>
        /\ \A l \in 1..Len(last.lists) : lists[l] = last.lists[l]
        /\ \A i \in 1..Len(last.polys) : Shape(polys[i]) = Shape(last.polys[i])
        /\ Observed(last.a) = ObservedBefore(last.a)
        /\ Observed(last.b) = ObservedBefore(last.b)
        /\ \A i \in Range(PolygonsOf(last.res)) : i > Len(last.polys)

(* A subtraction of two different solids in which a face of B survived,    *)
(* inverted, in the result                                                 *)
OperandsUnchangedWitness ==
    /\ last.op = "subtract"
    /\ last.a # last.b
    /\ Len(PolygonsOf(last.res)) > Len(PolygonsOf(last.a))
    /\ \E i \in Range(PolygonsOf(last.res)) : polys[i].org = 2

(* C2: A.inverse() returns a new solid whose polygons are A's polygons,    *)
(* each flipped (vertex order reversed, normals negated, plane negated),   *)
(* and A is not modified.                                                  *)
InverseFlipsEveryPolygon ==
    last.op = "inverse" =>
        /\ Len(PolygonsOf(last.res)) = Len(PolygonsOf(last.a))
        /\ \A k \in 1..Len(PolygonsOf(last.res)) :
               Shape(polys[PolygonsOf(last.res)[k]])
                   = Shape(PolygonFlip(last.polys[last.lists[solids[last.a]][k]]))
        /\ Observed(last.a) = ObservedBefore(last.a)

(* C3: A.intersect(E) and E.intersect(A) have no polygons when E has none  *)
IntersectWithEmptyIsEmpty ==
    (last.op = "intersect" /\ (PolygonsOf(last.a) = <<>> \/ PolygonsOf(last.b) = <<>>))
        => PolygonsOf(last.res) = <<>>

(* C4: A.subtract(E) has exactly A's polygons in their orientation, and    *)
(* E.subtract(A) has no polygons, when E has none                          *)
SubtractWithEmptyIsFirst ==
    last.op = "subtract" =>
        /\ PolygonsOf(last.b) = <<>> => Observed(last.res) = Observed(last.a)
        /\ PolygonsOf(last.a) = <<>> => PolygonsOf(last.res) = <<>>

(* The number of polygons of solid s that look like sh *)
ShapeCount(s, sh) ==
    Cardinality({k \in 1..Len(PolygonsOf(s)) : Shape(polys[PolygonsOf(s)[k]]) = sh})

SamePolygons(s, t) ==
    \A sh \in Range(Observed(s)) \cup Range(Observed(t)) :
        ShapeCount(s, sh) = ShapeCount(t, sh)

(* C5: A.subtract(B) (solid 3) has the same polygons with the same         *)
(* orientations as A.inverse().union(B).inverse() (solid 6)                *)
SubtractIsInverseOfUnion == Len(solids) = 6 => SamePolygons(3, 6)

(* C9: in the solid a Boolean operation returns, every polygon that comes  *)
(* from a clone of the first operand has been flipped an even number of    *)
(* times; every polygon that comes from a clone of the second operand has  *)
(* been flipped an even number of times by union and intersect and an odd  *)
(* number of times by subtract.                                            *)
FlipParity ==
    last.op \in BooleanOps =>
        \A i \in Range(PolygonsOf(last.res)) :
            /\ polys[i].org \in {1, 2}
            /\ polys[i].org = 1 => polys[i].flips % 2 = 0
            /\ polys[i].org = 2 =>
                   polys[i].flips % 2 = (IF last.op = "subtract" THEN 1 ELSE 0)

(* A subtraction whose result has flipped fragments of both operands *)
FlipParityWitness ==
    /\ last.op = "subtract"
    /\ \E i \in Range(PolygonsOf(last.res)) : polys[i].org = 1 /\ polys[i].flips = 2
    /\ \E i \in Range(PolygonsOf(last.res)) : polys[i].org = 2 /\ polys[i].flips = 3

(* The places <<k, j>> of the vertices of solid s (vertex j of polygon k),  *)
(* the position at a place, and the order in which a walk over the         *)
(* polygons and their vertices meets the places                            *)
Places(s) ==
    UNION { {<<k, j>> : j \in 1..Len(polys[PolygonsOf(s)[k]].vertices)} :
                k \in 1..Len(PolygonsOf(s)) }

PosAt(s, p) == polys[PolygonsOf(s)[p[1]]].vertices[p[2]].pos

Earlier(p, q) == p[1] < q[1] \/ (p[1] = q[1] /\ p[2] < q[2])

FirstPlace(s, pos) ==
    CHOOSE p \in Places(s) :
        /\ PosAt(s, p) = pos
        /\ \A q \in Places(s) : PosAt(s, q) = pos => ~Earlier(q, p)

(* The sum of the lengths of the sequences of ss *)
RECURSIVE SumLen(_)
SumLen(ss) == IF ss = <<>> THEN 0 ELSE Len(Head(ss)) + SumLen(Tail(ss))

(* C6: toVerticesAndPolygons returns verts holding every distinct position *)
(* of the solid exactly once, in the order the positions are first met     *)
(* when walking the polygons and their vertices in order; one cell per     *)
(* polygon, cells[k][j] being the index (from 0) in verts of the position  *)
(* of vertex j of polygon k; and count, the sum of the lengths of the      *)
(* cells.                                                                  *)
IndexedMesh ==
    last.op = "toVerticesAndPolygons" =>
        /\ Range(out.verts) = {PosAt(last.a, p) : p \in Places(last.a)}
        /\ \A m \in 1..Len(out.verts), n \in 1..Len(out.verts) :
               m < n => /\ out.verts[m] # out.verts[n]
                        /\ Earlier(FirstPlace(last.a, out.verts[m]),
                                   FirstPlace(last.a, out.verts[n]))
        /\ Len(out.cells) = Len(PolygonsOf(last.a))
        /\ \A p \in Places(last.a) :
               /\ Len(out.cells[p[1]]) = Len(polys[PolygonsOf(last.a)[p[1]]].vertices)
               /\ out.cells[p[1]][p[2]] \in 0..(Len(out.verts) - 1)
               /\ out.verts[out.cells[p[1]][p[2]] + 1] = PosAt(last.a, p)
        /\ out.count = SumLen(out.cells)

(* An export of a solid of several polygons that share positions *)
IndexedMeshWitness ==
    /\ last.op = "toVerticesAndPolygons"
    /\ Len(out.cells) >= 2
    /\ Len(out.verts) >= 4
    /\ Len(out.verts) < out.count

ListOps == {"append", "pop", "moveVertex"}

(* C7, as claimed: a solid owns its list by value.  No change made through *)
(* the list L given to fromPolygons or through the list toPolygons()       *)
(* returned (append, pop, moving a vertex) changes what s.toPolygons()     *)
(* shows, and s.translate and s.rotate leave the polygons reachable from L *)
(* as they were.                                                           *)
OwnsListByValue ==
    \A s \in Solids :
        /\ (last.op \in ListOps /\ last.a = ToPolygons(s))
               => Observed(s) = ObservedBefore(s)
        /\ (last.op \in {"translate", "rotate"} /\ last.a = s
                /\ prov[s].op = "fromPolygons")
               => \A i \in Range(last.lists[prov[s].list]) :
                      Shape(polys[i]) = Shape(last.polys[i])

(* C7, amended: a solid made by fromPolygons(L) shares L.  s.toPolygons()  *)
(* is the list L itself, so an append, a pop or a moved vertex made        *)
(* through L shows in s.toPolygons(), and s.translate and s.rotate act on  *)
(* the polygon objects reachable from L.                                   *)
SharesList ==
    \A s \in Solids :
        prov[s].op = "fromPolygons" =>
            /\ ToPolygons(s) = prov[s].list
            /\ (last.op = "append" /\ last.a = prov[s].list) =>
                   /\ Len(PolygonsOf(s)) = Len(last.lists[prov[s].list]) + 1
                   /\ Shape(polys[PolygonsOf(s)[Len(PolygonsOf(s))]]) = Shape(ExtraPolygon)
            /\ (last.op = "pop" /\ last.a = prov[s].list) =>
                   Len(PolygonsOf(s)) = Len(last.lists[prov[s].list]) - 1
            /\ (last.op = "moveVertex" /\ last.a = prov[s].list) =>
                   Observed(s)[1] # ObservedBefore(s)[1]
            /\ (last.op = "translate" /\ last.a = s) =>
                   \A i \in Range(last.lists[prov[s].list]) :
                       \A k \in 1..Len(polys[i].vertices) :
                           polys[i].vertices[k].pos
                               = Plus(last.polys[i].vertices[k].pos, last.b)
            /\ (last.op = "rotate" /\ last.a = s) =>
                   \A i \in Range(last.lists[prov[s].list]) :
                       \A k \in 1..Len(polys[i].vertices) :
                           polys[i].vertices[k].pos
                               = NewVector(last.polys[i].vertices[k].pos,
                                           Unit(last.b[1]), Cos(last.b[2]), Sin(last.b[2]))

(* Two solids made from one list, and a polygon appended to that list *)
SharesListWitness ==
    \E s \in Solids, t \in Solids :
        /\ s # t
        /\ prov[s].op = "fromPolygons" /\ prov[t].op = "fromPolygons"
        /\ prov[s].list = prov[t].list
        /\ last.op = "append" /\ last.a = prov[s].list
        /\ Len(PolygonsOf(t)) = Len(last.lists[last.a]) + 1

(* saveVTK's header lines *)
Header ==
    << Line("# vtk DataFile Version 3.0", <<>>), Line("pycsg output", <<>>),
       Line("ASCII", <<>>), Line("DATASET POLYDATA", <<>>) >>

(* The cell records read back from the lines after the POLYGONS line: each *)
(* is a count k and k indices.  A count that runs past the end of the file *)
(* gives a record no cell can equal.                                       *)
RECURSIVE CellRecords(_)
CellRecords(ls) ==
    IF ls = <<>> THEN <<>>
    ELSE IF Head(ls).nums[1] + 1 > Len(ls) THEN << <<0 - 1>> >>
    ELSE << [j \in 1..Head(ls).nums[1] |-> ls[j + 1].nums[1]] >>
         \o CellRecords(SubSeq(ls, Head(ls).nums[1] + 2, Len(ls)))

DistinctPositions(s) == {PosAt(s, p) : p \in Places(s)}

RecordLines(s) == SubSeq(out.file, 7 + Cardinality(DistinctPositions(s)), Len(out.file))

(* C8: saveVTK writes the four header lines, a POINTS n float line with n  *)
(* the number of distinct positions, n coordinate lines, a POLYGONS        *)
(* numCells size line, and one record per polygon: its vertex count k and  *)
(* k indices, each the index of the coordinate line of that vertex.  size  *)
(* is indexCount + numCells, and is the number of integers written after   *)
(* the POLYGONS line.                                                      *)
VTKLayout ==
    last.op = "saveVTK" =>
        /\ Len(out.file) >= 6 + Cardinality(DistinctPositions(last.a))
        /\ SubSeq(out.file, 1, 4) = Header
        /\ out.file[5] = Line("POINTS {} float", <<Cardinality(DistinctPositions(last.a))>>)
        /\ \A k \in 1..Cardinality(DistinctPositions(last.a)) :
               /\ out.file[5 + k].text = "{} {} {}"
               /\ Len(out.file[5 + k].nums) = 3
        /\ out.file[6 + Cardinality(DistinctPositions(last.a))]
               = Line("POLYGONS {} {}",
                      <<Len(PolygonsOf(last.a)),
                        Cardinality(Places(last.a)) + Len(PolygonsOf(last.a))>>)
        /\ \A k \in 1..Len(RecordLines(last.a)) :
               /\ RecordLines(last.a)[k].text = "{} "
               /\ Len(RecordLines(last.a)[k].nums) = 1
        /\ out.file[6 + Cardinality(DistinctPositions(last.a))].nums[2]
               = Len(RecordLines(last.a))
        /\ Len(CellRecords(RecordLines(last.a))) = Len(PolygonsOf(last.a))
        /\ \A p \in Places(last.a) :
               /\ Len(CellRecords(RecordLines(last.a))[p[1]])
                      = Len(polys[PolygonsOf(last.a)[p[1]]].vertices)
               /\ out.file[6 + CellRecords(RecordLines(last.a))[p[1]][p[2]]].nums
                      = PosAt(last.a, p)

(* A file written for a solid of several polygons *)
VTKLayoutWitness ==
    /\ last.op = "saveVTK"
    /\ Len(PolygonsOf(last.a)) >= 2
    /\ Len(out.file) > 6 + Len(PolygonsOf(last.a))

(* n . v = w for every vertex v of the polygon and its stored plane *)
OnPlane(p) ==
    \A k \in 1..Len(p.vertices) : Dot(p.plane.normal, p.vertices[k].pos) = p.plane.w

(* C10: when every polygon of s has its vertices on its stored plane       *)
(* before s.translate(d), every polygon of s has them on its stored plane  *)
(* after the call; the vertex normals are unchanged.                       *)
TranslateKeepsOnPlane ==
    last.op = "translate" =>
        /\ (\A i \in Range(last.lists[solids[last.a]]) : OnPlane(last.polys[i]))
               => (\A i \in Range(PolygonsOf(last.a)) : OnPlane(polys[i]))
        /\ \A i \in Range(PolygonsOf(last.a)) :
               \A k \in 1..Len(polys[i].vertices) :
                   polys[i].vertices[k].normal = last.polys[i].vertices[k].normal

=============================================================================
